---- MODULE Spec2Model ----
(***************************************************************************)
(* Model of inputs/ligand_extract.py: extract_ligand(input_pdb, ligand_id, *)
(* output_pdb).  The function parses a PDB file into a Structure, hands    *)
(* the structure to a PDBIO writer, walks model -> chain -> residue, and   *)
(* on the first residue whose id equals ligand_id calls                    *)
(*     io.save(output_pdb, select=ligand_id)                               *)
(* prints a confirmation line and returns.                                 *)
(*                                                                         *)
(* A structure is a sequence of models, a model a sequence of chains, a    *)
(* chain a sequence of residue ids (hetero flag, sequence number,          *)
(* insertion code).  Every residue carries the atoms named in AtomNames;   *)
(* an atom is identified by the position of its residue and its name.      *)
(***************************************************************************)
EXTENDS Naturals, Sequences, FiniteSets

\* Bounds of the model.
MaxModels == 2
MaxChains == 2
MaxResidues == 3

\* Residue identifiers that occur in the modelled files.  The first is the
\* placeholder the script's entry point passes.
ResIds == { <<" ", 1, " ">>, <<"H_LIG", 1, " ">>, <<" ", 2, " ">> }

\* Atom names of a residue, in file order.
AtomNames == << "C1", "O1" >>

VARIABLES
    input,            \* contents of the file at input_pdb (its hierarchy)
    input_ok,         \* the file at input_pdb can be read and parsed
    output_writable,  \* the file at output_pdb can be opened for writing
    ligand_id,        \* argument ligand_id (<<>> before the call)
    pc,               \* "input", "parse", "scan", "returned", "raised"
    structure,        \* local `structure` (<<>> until parsed)
    io,               \* the structure held by the PDBIO object
    k,                \* index in scan order of the next residue to compare
    visited,          \* positions of the residues compared so far
    outfile,          \* the file at output_pdb: [exists, lines]
    saves,            \* number of calls of io.save in this invocation
    select,           \* the select argument io.save last received
    save_status,      \* how the last io.save ended: "none", "ok" or its exception
    printed,          \* confirmation lines printed by this invocation
    err,              \* the exception that left the call, or "none"
    rerun,            \* TRUE in the second invocation on the same arguments
    first             \* outcome of the first invocation (<<>> until it ended)

vars == << input, input_ok, output_writable, ligand_id, pc, structure, io, k,
           visited, outfile, saves, select, save_status, printed, err, rerun, first >>

NoFile == [exists |-> FALSE, lines |-> << >>]
NoSelect == [kind |-> "none", value |-> << >>]

(***************************************************************************)
(* The hierarchy and its iteration order.                                  *)
(***************************************************************************)
\* All residue positions <<model, chain, residue>> of structure s.
Positions(s) ==
    UNION { UNION { { <<m, c, r>> : r \in 1..Len(s[m][c]) }
                    : c \in 1..Len(s[m]) }
            : m \in 1..Len(s) }

\* The number of residues of structure s.
NumResidues(s) == Cardinality(Positions(s))

\* Variant of Before: the loops run from the last item to the first.
BeforeReversed(p, q) ==
    \/ p[1] > q[1]
    \/ p[1] = q[1] /\ p[2] > q[2]
    \/ p[1] = q[1] /\ p[2] = q[2] /\ p[3] > q[3]

\* p comes before q in "for model ... for chain ... for residue".
Before(p, q) ==
    \/ p[1] < q[1]
    \/ p[1] = q[1] /\ p[2] < q[2]
    \/ p[1] = q[1] /\ p[2] = q[2] /\ p[3] < q[3]

\* The residue positions in the order the nested loops visit them.
ScanOrder(s) ==
    LET P == Positions(s)
    IN  [ i \in 1..Cardinality(P) |->
            CHOOSE p \in P : Cardinality({ q \in P : Before(q, p) }) = i - 1 ]

\* residue.id of the residue at position p.
ResidueId(s, p) == s[p[1]][p[2]][p[3]]

\* Variant of Matches: only the sequence number is compared.
MatchesSeqOnly(id, lid) == id[2] = lid[2]

\* The test of the if statement.
Matches(id, lid) == id = lid

\* The atoms of the residue at position p.
AtomsOf(p) == { <<p, AtomNames[a]>> : a \in 1..Len(AtomNames) }

(***************************************************************************)
(* The writer.                                                             *)
(***************************************************************************)
\* The value the call passes as `select`: the identifier tuple itself.
SelectArg(lid) == [kind |-> "tuple", value |-> lid]

\* save() asks the select object through its accept_* methods.
HasAcceptMethods(sel) == sel.kind = "Select"

\* One atom line of the written file.
AtomLine(s, p, a) ==
    [model |-> p[1], chain |-> p[2], resid |-> ResidueId(s, p), pos |-> p,
     atom |-> AtomNames[a]]

\* The atom lines save() writes for the residues select accepts.
RECURSIVE LinesFrom(_, _, _, _)
LinesFrom(s, sel, order, i) ==
    IF i > Len(order) THEN << >>
    ELSE (IF ResidueId(s, order[i]) = sel.value
          THEN [ a \in 1..Len(AtomNames) |-> AtomLine(s, order[i], a) ]
          ELSE << >>)
         \o LinesFrom(s, sel, order, i + 1)

\* Variant of OpenW: exclusive creation, which refuses an existing file.
OpenX(file, writable) ==
    IF ~writable THEN [status |-> "OSError", file |-> file]
    ELSE IF file.exists THEN [status |-> "FileExistsError", file |-> file]
    ELSE [status |-> "ok", file |-> [exists |-> TRUE, lines |-> << >>]]

\* open(file, "w"): fails on an unwritable path, else creates or truncates.
OpenW(file, writable) ==
    IF writable THEN [status |-> "ok", file |-> [exists |-> TRUE, lines |-> << >>]]
    ELSE [status |-> "OSError", file |-> file]

\* io.save(file, select): opens the file, then walks the structure asking
\* select.accept_model(model) for the first model.
PDBIO_save(file, writable, s, sel) ==
    LET o == OpenW(file, writable)
    IN  IF o.status # "ok" THEN o
        ELSE IF Len(s) = 0 THEN o
        ELSE IF ~HasAcceptMethods(sel)
             THEN [status |-> "AttributeError", file |-> o.file]
        ELSE [status |-> "ok",
              file |-> [exists |-> TRUE,
                        lines |-> LinesFrom(s, sel, ScanOrder(s), 1)]]

\* Re-parsing a written file: the residues its atom lines belong to.
ParsedResidues(file) ==
    { <<file.lines[i].model, file.lines[i].chain, file.lines[i].resid>> :
        i \in 1..Len(file.lines) }

\* The atoms a written file holds.
FileAtoms(file) ==
    { <<file.lines[i].pos, file.lines[i].atom>> : i \in 1..Len(file.lines) }

(***************************************************************************)
(* Initial state: an empty input file, nothing called yet.                 *)
(***************************************************************************)
Init ==
    /\ input = << >>
    /\ input_ok = TRUE
    /\ output_writable = TRUE
    /\ ligand_id = << >>
    /\ pc = "input"
    /\ structure = << >>
    /\ io = << >>
    /\ k = 1
    /\ visited = << >>
    /\ outfile = NoFile
    /\ saves = 0
    /\ select = NoSelect
    /\ save_status = "none"
    /\ printed = 0
    /\ err = "none"
    /\ rerun = FALSE
    /\ first = << >>

call_vars == << ligand_id, input_ok, output_writable, pc, structure, io, k,
                visited, outfile, saves, select, save_status, printed, err, rerun, first >>

(***************************************************************************)
(* The input file: the records the parser will turn into the hierarchy.    *)
(***************************************************************************)
\* A MODEL record.
AddModel ==
    /\ pc = "input"
    /\ Len(input) < MaxModels
    /\ input' = Append(input, << >>)
    /\ UNCHANGED call_vars

\* The atoms of the first residue of a new chain of the last model: the
\* parser opens a chain when an atom line names it, so no chain is empty.
AddChain ==
    /\ pc = "input"
    /\ Len(input) > 0
    /\ Len(input[Len(input)]) < MaxChains
    /\ NumResidues(input) < MaxResidues
    /\ \E id \in ResIds :
         input' = [input EXCEPT ![Len(input)] = Append(@, << id >>)]
    /\ UNCHANGED call_vars

\* The atoms of a new residue of the last chain; ids are unique in a chain.
AddResidue ==
    /\ pc = "input"
    /\ Len(input) > 0
    /\ Len(input[Len(input)]) > 0
    /\ NumResidues(input) < MaxResidues
    /\ \E id \in ResIds :
         LET m == Len(input)
             c == Len(input[m])
         IN  /\ \A r \in 1..Len(input[m][c]) : input[m][c][r] # id
             /\ input' = [input EXCEPT ![m][c] = Append(@, id)]
    /\ UNCHANGED call_vars

(***************************************************************************)
(* extract_ligand                                                          *)
(***************************************************************************)
\* The call: binds ligand_id; the environment fixes whether the two paths
\* can be read and written.
Call ==
    /\ pc = "input"
    /\ \E lid \in ResIds, ok \in BOOLEAN, w \in BOOLEAN :
         /\ ligand_id' = lid
         /\ input_ok' = ok
         /\ output_writable' = w
    /\ pc' = "parse"
    /\ UNCHANGED << input, structure, io, k, visited, outfile, saves, select, save_status,
                    printed, err, rerun, first >>

\* parser.get_structure succeeds; io.set_structure(structure).
GetStructure ==
    /\ pc = "parse"
    /\ input_ok
    /\ structure' = input
    /\ io' = input
    /\ k' = 1
    /\ pc' = "scan"
    /\ UNCHANGED << input, input_ok, output_writable, ligand_id, visited,
                    outfile, saves, select, save_status, printed, err, rerun, first >>

\* Variant of ParseError: the exception is caught and the call returns.
ParseErrorSwallowed ==
    /\ pc = "parse"
    /\ ~input_ok
    /\ pc' = "returned"
    /\ UNCHANGED << input, input_ok, output_writable, ligand_id, structure, io,
                    k, visited, outfile, saves, select, save_status, printed, err, rerun,
                    first >>

\* parser.get_structure raises; nothing catches it.
ParseError ==
    /\ pc = "parse"
    /\ ~input_ok
    /\ err' = "ParserError"
    /\ pc' = "raised"
    /\ UNCHANGED << input, input_ok, output_writable, ligand_id, structure, io,
                    k, visited, outfile, saves, select, save_status, printed, rerun, first >>

\* Variant of NoMatch: the residue that did not match is detached from its
\* chain.
NoMatchDetach ==
    /\ pc = "scan"
    /\ k <= Len(ScanOrder(structure))
    /\ ~Matches(ResidueId(structure, ScanOrder(structure)[k]), ligand_id)
    /\ visited' = Append(visited, ScanOrder(structure)[k])
    /\ LET p == ScanOrder(structure)[k]
       IN  structure' = [structure EXCEPT ![p[1]][p[2]] =
                            SubSeq(@, 1, p[3] - 1) \o SubSeq(@, p[3] + 1, Len(@))]
    /\ UNCHANGED << input, input_ok, output_writable, ligand_id, pc, io, k,
                    outfile, saves, select, save_status, printed, err, rerun, first >>

\* One iteration of the innermost loop on a residue that does not match.
NoMatch ==
    /\ pc = "scan"
    /\ k <= Len(ScanOrder(structure))
    /\ ~Matches(ResidueId(structure, ScanOrder(structure)[k]), ligand_id)
    /\ visited' = Append(visited, ScanOrder(structure)[k])
    /\ k' = k + 1
    /\ UNCHANGED << input, input_ok, output_writable, ligand_id, pc, structure,
                    io, outfile, saves, select, save_status, printed, err, rerun, first >>

\* Variant of Match: an exception of save is caught, the line is printed
\* anyway.
MatchSwallow ==
    /\ pc = "scan"
    /\ k <= Len(ScanOrder(structure))
    /\ Matches(ResidueId(structure, ScanOrder(structure)[k]), ligand_id)
    /\ visited' = Append(visited, ScanOrder(structure)[k])
    /\ LET res == PDBIO_save(outfile, output_writable, io, SelectArg(ligand_id))
       IN  /\ saves' = saves + 1
           /\ select' = SelectArg(ligand_id)
           /\ save_status' = res.status
           /\ outfile' = res.file
           /\ printed' = printed + 1
           /\ pc' = "returned"
           /\ err' = err
    /\ UNCHANGED << input, input_ok, output_writable, ligand_id, structure, io,
                    k, rerun, first >>

\* One iteration on a residue that matches: save, print, return.
Match ==
    /\ pc = "scan"
    /\ k <= Len(ScanOrder(structure))
    /\ Matches(ResidueId(structure, ScanOrder(structure)[k]), ligand_id)
    /\ visited' = Append(visited, ScanOrder(structure)[k])
    /\ LET res == PDBIO_save(outfile, output_writable, io, SelectArg(ligand_id))
       IN  /\ saves' = saves + 1
           /\ select' = SelectArg(ligand_id)
           /\ save_status' = res.status
           /\ outfile' = res.file
           /\ IF res.status = "ok"
              THEN /\ printed' = printed + 1
                   /\ pc' = "returned"
                   /\ err' = err
              ELSE /\ printed' = printed
                   /\ pc' = "raised"
                   /\ err' = res.status
    /\ UNCHANGED << input, input_ok, output_writable, ligand_id, structure, io,
                    k, rerun, first >>

\* The loops end without a match: the function falls off its end.
Exhausted ==
    /\ pc = "scan"
    /\ k > Len(ScanOrder(structure))
    /\ pc' = "returned"
    /\ UNCHANGED << input, input_ok, output_writable, ligand_id, structure, io,
                    k, visited, outfile, saves, select, save_status, printed, err, rerun, first >>

Terminal == pc \in {"returned", "raised"}

\* What a caller can observe of a finished invocation.
Outcome == [pc |-> pc, err |-> err, printed |-> printed, outfile |-> outfile]

\* A second invocation with the same arguments: the locals are fresh, the
\* files are as the first invocation left them.
Rerun ==
    /\ Terminal
    /\ ~rerun
    /\ rerun' = TRUE
    /\ first' = Outcome
    /\ pc' = "parse"
    /\ structure' = << >>
    /\ io' = << >>
    /\ k' = 1
    /\ visited' = << >>
    /\ saves' = 0
    /\ select' = NoSelect
    /\ save_status' = "none"
    /\ printed' = 0
    /\ err' = "none"
    /\ UNCHANGED << input, input_ok, output_writable, ligand_id, outfile >>

Next ==
    \/ AddModel
    \/ AddChain
    \/ AddResidue
    \/ Call
    \/ GetStructure
    \/ ParseError
    \/ NoMatch
    \/ Match
    \/ Exhausted
    \/ Rerun

Spec == Init /\ [][Next]_vars

(***************************************************************************)
(* Properties.  They are stated on the input file and the arguments, not   *)
(* through the operators the scan itself uses.                             *)
(***************************************************************************)
\* The residues of the input file whose identifier equals ligand_id.
MatchPositions ==
    { p \in Positions(input) : ResidueId(input, p) = ligand_id }

HasMatch == MatchPositions # {}

\* Model order, then chain order, then residue order.
Earlier(p, q) ==
    \/ p[1] < q[1]
    \/ p[1] = q[1] /\ p[2] < q[2]
    \/ p[1] = q[1] /\ p[2] = q[2] /\ p[3] < q[3]

\* The first residue in file order whose identifier equals ligand_id.
FirstMatch ==
    CHOOSE p \in MatchPositions :
        \A q \in MatchPositions : q = p \/ Earlier(p, q)

\* The call has been made and the parser has delivered a structure.
Parsed == pc \in {"scan", "returned", "raised"} /\ input_ok

\* A writer exception.
WriterErrors == {"OSError", "AttributeError"}

\* C1: when exactly one residue of the input has the identifier ligand_id
\* (and the output path is writable), the call completes and the output
\* file holds exactly the atoms of that residue.
C1_ExactlyTheLigandAtoms ==
    (Terminal /\ input_ok /\ output_writable /\ Cardinality(MatchPositions) = 1)
        => /\ pc = "returned"
           /\ outfile.exists
           /\ FileAtoms(outfile) = AtomsOf(FirstMatch)

\* C2: when no residue of any model or chain has the identifier ligand_id,
\* save is never called, no output file is created, nothing is printed, no
\* exception leaves the call, and the call returns after comparing every
\* residue of the structure.
C2_NoMatchSilentNoOp ==
    (Parsed /\ ~HasMatch)
        => /\ saves = 0
           /\ save_status = "none"
           /\ outfile = NoFile
           /\ printed = 0
           /\ pc # "raised"
           /\ err = "none"
           /\ (pc = "returned" =>
                 { visited[i] : i \in 1..Len(visited) } = Positions(input))

C2_Witness ==
    /\ Parsed
    /\ ~HasMatch
    /\ pc = "returned"
    /\ Len(visited) >= 2
    /\ \E i \in 1..Len(visited) :
          ResidueId(input, visited[i])[2] = ligand_id[2]

\* C3: whenever save has been called, the select argument it received is a
\* selection predicate for ligand_id (an object save can ask), and every
\* atom of the output file belongs to a residue whose identifier equals
\* ligand_id.
C3_SaveGetsSelectionPredicate ==
    saves > 0
        => /\ HasAcceptMethods(select)
           /\ select.value = ligand_id
           /\ \A i \in 1..Len(outfile.lines) :
                 outfile.lines[i].resid = ligand_id

\* C4: the residue on which save is called is the first residue in model,
\* chain, residue order whose identifier equals ligand_id, save is called at
\* most once, and the output file holds atoms of no residue but that one
\* (none of a later chain or model).
C4_AtMostFirstMatch ==
    saves > 0
        => /\ saves = 1
           /\ HasMatch
           /\ visited[Len(visited)] = FirstMatch
           /\ \A i \in 1..(Len(visited) - 1) : Earlier(visited[i], FirstMatch)
           /\ FileAtoms(outfile) \subseteq AtomsOf(FirstMatch)

C4_Witness ==
    /\ saves > 0
    /\ outfile.exists
    /\ Cardinality(MatchPositions) >= 2
    /\ \E p \in MatchPositions : p[1] # FirstMatch[1]
    /\ Len(visited) >= 2

\* C5: whenever a match was found and the output file was written,
\* re-parsing the output file yields exactly one residue, and its identifier
\* equals ligand_id.
C5_RoundTripOneResidue ==
    (Terminal /\ saves > 0 /\ outfile.exists)
        => /\ Cardinality(ParsedResidues(outfile)) = 1
           /\ \A r \in ParsedResidues(outfile) : r[3] = ligand_id

\* C6: save is called at most once and at most one line is printed; when the
\* call has ended on a parsed structure (with a writable output path), a
\* file was written and a line was printed if and only if some residue has
\* the identifier ligand_id, nothing was compared after the first match, and
\* the call returned successfully.
C6_OneFileOneLineIffMatch ==
    /\ saves <= 1
    /\ printed <= 1
    /\ (Terminal /\ input_ok /\ output_writable)
         => /\ pc = "returned"
            /\ HasMatch <=> (saves = 1 /\ outfile.exists)
            /\ HasMatch <=> printed = 1
            /\ HasMatch => visited[Len(visited)] = FirstMatch

\* C7: when reading or parsing the input fails, the parser's exception
\* leaves the call as it is, no residue is compared, save is never called
\* and nothing is printed.
C7_ParseErrorPropagates ==
    (pc \in {"scan", "returned", "raised"} /\ ~input_ok)
        => /\ pc = "raised"
           /\ err = "ParserError"
           /\ structure = << >>
           /\ visited = << >>
           /\ saves = 0
           /\ printed = 0

C7_Witness ==
    /\ ~input_ok
    /\ pc = "raised"
    /\ err = "ParserError"
    /\ HasMatch

\* C8: a second invocation with the same input, ligand_id and output path
\* ends as the first did: same return or exception, same printed line
\* count, same output file contents.
C8_RerunSameOutcome ==
    (rerun /\ Terminal) => Outcome = first

C8_Witness ==
    /\ rerun
    /\ Terminal
    /\ input_ok
    /\ output_writable
    /\ Cardinality(MatchPositions) >= 2
    /\ saves = 1
    /\ outfile.exists

\* C9: from the end of parsing to the end of the call, on every path, the
\* structure (and the structure the writer holds) is the one the parser
\* delivered.
C9_StructureNotMutated ==
    Parsed => (structure = input /\ io = input)

C9_Witness ==
    /\ Parsed
    /\ pc = "raised"
    /\ save_status = "AttributeError"
    /\ Len(visited) >= 2
    /\ structure = input
    /\ NumResidues(structure) > Len(visited)

\* C10: a line is printed only when save has returned; when save raised,
\* its exception leaves the call, nothing is printed, and no residue after
\* the matched one is compared.
C10_PrintOnlyAfterSave ==
    /\ printed > 0 => save_status = "ok"
    /\ save_status \in WriterErrors
         => /\ pc = "raised"
            /\ err = save_status
            /\ printed = 0
            /\ Len(visited) = k
            /\ visited[Len(visited)] = FirstMatch

C10_Witness ==
    /\ save_status = "OSError"
    /\ ~outfile.exists
    /\ pc = "raised"
    /\ NumResidues(input) > Len(visited)

====
